---- MODULE Spec2Model ----
(***************************************************************************)
(* A model of terabox.js (src/lib/index.js): the TeraBox client, its       *)
(* constructor, its seven public operations (quota, list, upload,          *)
(* download, move, delete, stream), the private #sign / #fetchHome helpers *)
(* and the TeraBoxDirent value object.                                     *)
(*                                                                         *)
(* Every asynchronous operation is a small process: a Start action runs    *)
(* the synchronous prefix of the method up to its first fetch(), and one   *)
(* Recv action per awaited fetch() takes the upstream answer (drawn from a *)
(* small set) and runs the code up to the next fetch() or to the           *)
(* return/throw of the method.                                             *)
(*                                                                         *)
(* JavaScript values are records [t, n, s]: t is the type tag, n the       *)
(* numeric payload, s the string payload (a sequence of text chunks; the   *)
(* strings the code inspects character by character - paths, numeric id    *)
(* strings - are sequences of single characters).                          *)
(***************************************************************************)
EXTENDS Integers, Sequences, FiniteSets, TLC

VARIABLES client, ctor, calls

vars == <<client, ctor, calls>>

----------------------------------------------------------------------------
(* Bounds of the model *)

\* longest destination path (in characters) a move mapping is drawn from
MaxPathLen == 3
\* most entries of one move mapping
MaxMove == 2
\* most elements of an array argument of download
MaxIds == 2
\* most records of an upstream listing array
MaxList == 2
\* most characters of a numeric-string id
MaxIdLen == 2
\* most characters of a signing string the encoder is run on
MaxSignLen == 4

----------------------------------------------------------------------------
(* JavaScript values *)

Undefined == [t |-> "undefined", n |-> 0, s |-> <<>>]
Null      == [t |-> "null",      n |-> 0, s |-> <<>>]
NaN       == [t |-> "nan",       n |-> 0, s |-> <<>>]
True      == [t |-> "boolean",   n |-> 1, s |-> <<>>]
False     == [t |-> "boolean",   n |-> 0, s |-> <<>>]
PlainObj  == [t |-> "object",    n |-> 0, s |-> <<>>]
Num(k)    == [t |-> "number",    n |-> k, s |-> <<>>]
Str(cs)   == [t |-> "string",    n |-> 0, s |-> cs]
\* a TeraBoxDirent passed as an argument: its id and its path
DirentArg(id, p) == [t |-> "dirent", n |-> id, s |-> p]

\* typeof v
TypeOf(v) ==
    CASE v.t = "undefined" -> "undefined"
      [] v.t = "null"      -> "object"
      [] v.t = "number"    -> "number"
      [] v.t = "nan"       -> "number"
      [] v.t = "string"    -> "string"
      [] v.t = "boolean"   -> "boolean"
      [] OTHER             -> "object"

\* ToBoolean(v): what !v, v || d and if (v) test
Truthy(v) ==
    CASE v.t = "undefined" -> FALSE
      [] v.t = "null"      -> FALSE
      [] v.t = "nan"       -> FALSE
      [] v.t = "number"    -> v.n # 0
      [] v.t = "string"    -> Len(v.s) > 0
      [] v.t = "boolean"   -> v.n = 1
      [] OTHER             -> TRUE

\* a || d
OrElse(a, d) == IF Truthy(a) THEN a ELSE d

Digits == <<"0", "1", "2", "3", "4", "5", "6", "7", "8", "9">>

IsDigit(c) == \E i \in 1..10 : Digits[i] = c

DigitVal(c) == (CHOOSE i \in 1..10 : Digits[i] = c) - 1

RECURSIVE NatToStr(_)
\* the decimal digits of a natural number
NatToStr(k) ==
    IF k < 10 THEN <<Digits[k + 1]>>
    ELSE NatToStr(k \div 10) \o <<Digits[(k % 10) + 1]>>

\* String(v), as a template literal `${v}` computes it
ToStr(v) ==
    CASE v.t = "undefined" -> <<"undefined">>
      [] v.t = "null"      -> <<"null">>
      [] v.t = "nan"       -> <<"NaN">>
      [] v.t = "number"    -> IF v.n < 0 THEN <<"-">> \o NatToStr(0 - v.n) ELSE NatToStr(v.n)
      [] v.t = "string"    -> v.s
      [] v.t = "boolean"   -> IF v.n = 1 THEN <<"true">> ELSE <<"false">>
      [] OTHER             -> <<"[object Object]">>

RECURSIVE DigitsToNat(_)
DigitsToNat(cs) ==
    IF cs = <<>> THEN 0
    ELSE 10 * DigitsToNat(SubSeq(cs, 1, Len(cs) - 1)) + DigitVal(cs[Len(cs)])

\* Number(v) for the two types download hands it: a number is itself, the
\* empty string is 0, a string of decimal digits is its value, any other
\* string of the modelled alphabet is NaN
ToNumber(v) ==
    CASE v.t = "number" -> v
      [] v.t = "nan"    -> v
      [] v.t = "string" ->
            IF \A i \in 1..Len(v.s) : IsDigit(v.s[i])
            THEN Num(DigitsToNat(v.s))
            ELSE NaN
      [] OTHER          -> NaN

\* x * 1000 on a JavaScript value
Times1000(v) ==
    CASE v.t = "number"  -> Num(v.n * 1000)
      [] v.t = "null"    -> Num(0)
      [] v.t = "boolean" -> Num(v.n * 1000)
      [] OTHER           -> NaN

----------------------------------------------------------------------------
(* node:path (posix) as the library uses it *)

RECURSIVE DirnameScan(_, _, _)
\* the loop of path.dirname: scans i = len-1 .. 1 (0-based) for the slash
\* that ends the parent; returns that 0-based index, or -1
DirnameScan(p, i, matchedSlash) ==
    IF i < 1 THEN -1
    ELSE IF p[i + 1] = "/"
         THEN IF ~matchedSlash THEN i ELSE DirnameScan(p, i - 1, matchedSlash)
         ELSE DirnameScan(p, i - 1, FALSE)

\* path.dirname(p) on a string p (a sequence of characters)
Dirname(p) ==
    IF Len(p) = 0 THEN <<".">>
    ELSE LET hasRoot == p[1] = "/"
             end     == DirnameScan(p, Len(p) - 1, TRUE)
         IN  IF end = -1 THEN (IF hasRoot THEN <<"/">> ELSE <<".">>)
             ELSE IF hasRoot /\ end = 1 THEN <<"/", "/">>
             ELSE SubSeq(p, 1, end)

RECURSIVE BasenameScan(_, _, _, _)
\* the loop of path.basename: scans i = len-1 .. 0 (0-based); returns
\* <<start, end>> of the slice (0-based, end exclusive; end = -1: none)
BasenameScan(p, i, matchedSlash, end) ==
    IF i < 0 THEN <<0, end>>
    ELSE IF p[i + 1] = "/"
         THEN IF ~matchedSlash THEN <<i + 1, end>>
              ELSE BasenameScan(p, i - 1, matchedSlash, end)
         ELSE IF end = -1 THEN BasenameScan(p, i - 1, FALSE, i + 1)
              ELSE BasenameScan(p, i - 1, matchedSlash, end)

\* path.basename(p) on a string p
Basename(p) ==
    LET se == BasenameScan(p, Len(p) - 1, TRUE, -1)
    IN  IF se[2] = -1 THEN <<>> ELSE SubSeq(p, se[1] + 1, se[2])

\* s.endsWith('/')
EndsWithSlash(s) == Len(s) > 0 /\ s[Len(s)] = "/"

----------------------------------------------------------------------------
(* Errors and outcomes *)

\* new Error(`[ERR_API] ${errno} ${errmsg || ''}`)
ApiError(errno, errmsg) ==
    [cls |-> "Error", tag |-> "ERR_API",
     code |-> ToStr(errno), msg |-> ToStr(OrElse(errmsg, Str(<<>>)))]

\* new Error(`[ERR_API] Unable to ...`): no upstream code to carry
ProtocolError(what) ==
    [cls |-> "Error", tag |-> "ERR_API", code |-> <<>>, msg |-> <<what>>]

\* new Error(`TypeError [ERR_INVALID_ARG_TYPE]: The "<name>" ... Received ${typeof v}`)
ArgError(name, v) ==
    [cls |-> "Error", tag |-> "ERR_INVALID_ARG_TYPE",
     code |-> <<name>>, msg |-> <<TypeOf(v)>>]

\* a TypeError the runtime itself throws (path.dirname on a non-string,
\* Object.entries(null), Buffer.byteLength on a non-buffer, x.map on undefined)
NativeTypeError(what) ==
    [cls |-> "TypeError", tag |-> "NATIVE", code |-> <<>>, msg |-> <<what>>]

\* fetch() rejected, or res.json() could not parse the body
TransportError ==
    [cls |-> "TransportError", tag |-> "FETCH", code |-> <<>>, msg |-> <<>>]

Returned(v) == <<[kind |-> "return", v |-> v]>>
Thrown(e)   == <<[kind |-> "throw", v |-> e]>>
Pending     == <<>>

IsReturn(out) == out # <<>> /\ out[1].kind = "return"
IsThrow(out)  == out # <<>> /\ out[1].kind = "throw"

----------------------------------------------------------------------------
(* The constructor and the credential bundle *)

\* a credentials argument: self is the argument itself (undefined, null or
\* an object), the other fields are its properties
CredArg(self, ndus, lang) ==
    [self |-> self, ndus |-> ndus, lang |-> lang, appId |-> Undefined,
     browserId |-> Undefined, host |-> Undefined, blockId |-> Undefined,
     userAgent |-> Undefined, jsToken |-> Undefined]

NdusInputs ==
    {Undefined, Null, Str(<<>>), Str(<<"tok">>), Num(5), Num(0), True, PlainObj}

LangInputs == {Undefined, Str(<<"ko">>)}

CredInputs ==
    {CredArg(Undefined, Undefined, Undefined), CredArg(Null, Undefined, Undefined)}
    \cup {CredArg(PlainObj, n, l) : n \in NdusInputs, l \in LangInputs}

\* a slip of the guard: the typeof test left out
CredentialsRejectedNoTypeof(cr) == ~Truthy(cr.self) \/ ~Truthy(cr.ndus)

\* the guard of the constructor:
\* !credentials || !credentials.ndus || typeof credentials.ndus !== 'string'
CredentialsRejected(cr) ==
    \/ ~Truthy(cr.self)
    \/ ~Truthy(cr.ndus)
    \/ TypeOf(cr.ndus) # "string"

\* this.#credentials = {...}
MakeCredentials(cr) ==
    [ndus      |-> cr.ndus,
     lang      |-> OrElse(cr.lang, Str(<<"en">>)),
     appId     |-> OrElse(cr.appId, Str(<<"250528">>)),
     browserId |-> cr.browserId,
     host      |-> OrElse(cr.host, Str(<<"https://terabox.com">>)),
     blockId   |-> OrElse(cr.blockId, Str(<<"5910a591dd8fc18c32a8f3df4fdc1761">>)),
     cookies   |-> [browserid |-> ToStr(cr.browserId),
                    lang      |-> ToStr(cr.lang),
                    ndus      |-> ToStr(cr.ndus)],
     userAgent |-> OrElse(cr.userAgent, Str(<<"Mozilla/5.0">>)),
     jsToken   |-> OrElse(cr.jsToken, Str(<<"0C911FEE">>))]

\* new TeraBox(credentials)
Construct ==
    /\ client = <<>>
    /\ \E cr \in CredInputs :
          IF CredentialsRejected(cr)
          THEN /\ ctor' = [arg |-> <<cr>>,
                           out |-> Thrown(ArgError("credentials.ndus", cr.ndus))]
               /\ UNCHANGED client
          ELSE /\ ctor' = [arg |-> <<cr>>, out |-> Returned(True)]
               /\ client' = <<MakeCredentials(cr)>>
    /\ UNCHANGED calls

----------------------------------------------------------------------------
(* TeraBoxDirent *)

\* an upstream file record (an element of a listing, or the finalize answer)
UpRecord(id, size, name, p, isdir, stime, ptime) ==
    [fs_id |-> id, size |-> size, server_filename |-> name, path |-> p,
     isdir |-> isdir,
     server_atime |-> stime, atime |-> ptime,
     server_ctime |-> stime, ctime |-> ptime,
     server_mtime |-> stime, mtime |-> ptime]

RecFile   == UpRecord(Num(5), Num(3), Str(<<"f">>), Str(<<"/", "a", "/", "f">>),
                      Num(0), Num(4), Undefined)
RecDir    == UpRecord(Num(7), Undefined, Str(<<"d">>), Str(<<"/", "d">>),
                      Num(1), Undefined, Num(6))
RecNoPath == UpRecord(Num(9), Num(1), Str(<<"g">>), Undefined,
                      Num(0), Num(4), Undefined)

UpRecords == {RecFile, RecDir, RecNoPath}

\* path.dirname(data.path) throws a TypeError unless data.path is a string
DirentThrows(data) == TypeOf(data.path) # "string"

\* new TeraBoxDirent(data, client); the back-reference to the client is a
\* borrowed pointer and carries no state of its own
NewDirent(data) ==
    [id          |-> data.fs_id,
     size        |-> OrElse(data.size, Num(0)),
     name        |-> data.server_filename,
     path        |-> data.path,
     parentPath  |-> Str(Dirname(data.path.s)),
     atimeMs     |-> Times1000(OrElse(data.server_atime, data.atime)),
     ctimeMs     |-> Times1000(OrElse(data.server_ctime, data.ctime)),
     mtimeMs     |-> Times1000(OrElse(data.server_mtime, data.mtime)),
     birthtimeMs |-> Times1000(OrElse(data.server_ctime, data.ctime)),
     isDirectory |-> Truthy(data.isdir)]

----------------------------------------------------------------------------
(* Invocations *)

\* the invocations that may be in flight on the client
CallIds == {"c1", "c2"}

\* the invocation Spec drives (one operation at a time)
SeqCalls == {"c1"}

IdleCall ==
    [op |-> "none", arg |-> <<>>, pc |-> "idle", reqs |-> <<>>,
     resps |-> <<>>, out |-> Pending, loc |-> <<>>]

Cred == client[1]

\* one fetch(): the endpoint, the host it goes to, the Cookie and User-Agent
\* headers, and the parameters the code puts into the query string or body
Request(ep, host, body) ==
    [ep |-> ep, host |-> host, cookie |-> Cred.cookies,
     ua |-> Cred.userAgent, appId |-> Cred.appId, body |-> body]

\* the synchronous prefix of a method ran to its first fetch()
Issue(c, op, arg, pc, req, loc) ==
    calls' = [calls EXCEPT ![c] =
                [op |-> op, arg |-> arg, pc |-> pc, reqs |-> <<req>>,
                 resps |-> <<>>, out |-> Pending, loc |-> loc]]

\* the synchronous prefix of a method threw before any fetch()
Reject(c, op, arg, err) ==
    calls' = [calls EXCEPT ![c] =
                [op |-> op, arg |-> arg, pc |-> "done", reqs |-> <<>>,
                 resps |-> <<>>, out |-> Thrown(err), loc |-> <<>>]]

\* a slip of the locals: kept in one field of the client, so that every
\* invocation of the same method in flight sees the last value written
ContinueSharedLocals(c, resp, pc, req, loc) ==
    calls' = [d \in CallIds |->
                IF d = c
                THEN [calls[c] EXCEPT !.pc = pc,
                                      !.resps = Append(@, resp),
                                      !.reqs = Append(@, req),
                                      !.loc = loc]
                ELSE IF calls[d].op = calls[c].op /\ calls[d].pc \notin {"idle", "done"}
                THEN [calls[d] EXCEPT !.loc = loc]
                ELSE calls[d]]

\* an awaited fetch() answered and the method went on to its next fetch()
Continue(c, resp, pc, req, loc) ==
    calls' = [calls EXCEPT ![c].pc = pc,
                           ![c].resps = Append(@, resp),
                           ![c].reqs = Append(@, req),
                           ![c].loc = loc]

\* an awaited fetch() answered and the method returned or threw
Finish(c, resp, out) ==
    calls' = [calls EXCEPT ![c].pc = "done",
                           ![c].resps = Append(@, resp),
                           ![c].out = out]

CanStart(c) == client # <<>> /\ calls[c].pc = "idle"

\* a slip of the errno test: !data.errno
EnvelopeOkFalsy(data) == ~Truthy(data.errno)

\* data.errno === 0
EnvelopeOk(data) == data.errno = Num(0)

Codes == {Num(0), Num(2), Undefined}
Msgs  == {Undefined, Str(<<"denied">>)}

Envelopes == {[errno |-> e, errmsg |-> m] : e \in Codes, m \in Msgs}

\* a fetch() that rejects, or a body res.json() cannot parse: the awaited
\* promise rejects and the method rejects with it
TransportFail(c) ==
    /\ calls[c].pc \notin {"idle", "done"}
    /\ calls' = [calls EXCEPT ![c].pc = "done", ![c].out = Thrown(TransportError)]
    /\ UNCHANGED <<client, ctor>>

\* the caller has taken the outcome; the slot is free for the next invocation
Forget(c) ==
    /\ calls[c].pc = "done"
    /\ calls' = [calls EXCEPT ![c] = IdleCall]
    /\ UNCHANGED <<client, ctor>>

----------------------------------------------------------------------------
(* quota() *)

QuotaResponses ==
    {[errno |-> e.errno, errmsg |-> e.errmsg, used |-> Num(1), total |-> Num(4)] :
        e \in Envelopes}

QuotaStart(c) ==
    /\ CanStart(c)
    /\ Issue(c, "quota", <<>>, "await_quota",
             Request("quota", Cred.host, [jsToken |-> Cred.jsToken]), <<>>)
    /\ UNCHANGED <<client, ctor>>

QuotaResult(data) ==
    [used |-> data.used, total |-> data.total,
     free |-> Num(data.total.n - data.used.n)]

QuotaRecv(c) ==
    /\ calls[c].pc = "await_quota"
    /\ \E data \in QuotaResponses :
          IF EnvelopeOk(data)
          THEN Finish(c, data, Returned(QuotaResult(data)))
          ELSE Finish(c, data, Thrown(ApiError(data.errno, data.errmsg)))
    /\ UNCHANGED <<client, ctor>>

----------------------------------------------------------------------------
(* list(directory = '/') *)

\* the sequences over S of length at most n
SeqsUpTo(S, n) == UNION {[1..k -> S] : k \in 0..n}

ListInputs == {Undefined, Str(<<"/">>), Str(<<"/", "a">>), Num(7)}

Listings == SeqsUpTo(UpRecords, MaxList)

ListResponses ==
    {[errno |-> e.errno, errmsg |-> e.errmsg, hasList |-> TRUE, list |-> l] :
        e \in Envelopes, l \in Listings}
    \cup {[errno |-> Num(0), errmsg |-> Undefined, hasList |-> FALSE, list |-> <<>>]}

\* a default parameter value applies when the argument is undefined
DefaultTo(v, d) == IF v.t = "undefined" THEN d ELSE v

ListStart(c) ==
    /\ CanStart(c)
    /\ \E a \in ListInputs :
          LET directory == DefaultTo(a, Str(<<"/">>))
          IN  Issue(c, "list", <<a>>, "await_list",
                    Request("list", Cred.host,
                            [jsToken |-> Cred.jsToken, dir |-> ToStr(directory)]),
                    <<>>)
    /\ UNCHANGED <<client, ctor>>

\* a slip of the mapping: the entries come out in reverse order
MapDirentsReversed(list) == [i \in 1..Len(list) |-> NewDirent(list[Len(list) + 1 - i])]

\* data.list.map(i => new TeraBoxDirent(i, this))
MapDirents(list) == [i \in 1..Len(list) |-> NewDirent(list[i])]

ListRecv(c) ==
    /\ calls[c].pc = "await_list"
    /\ \E data \in ListResponses :
          IF EnvelopeOk(data)
          THEN IF ~data.hasList
               THEN Finish(c, data, Thrown(NativeTypeError("data.list.map")))
               ELSE IF \E i \in 1..Len(data.list) : DirentThrows(data.list[i])
               THEN Finish(c, data, Thrown(NativeTypeError("path.dirname")))
               ELSE Finish(c, data, Returned(MapDirents(data.list)))
          ELSE Finish(c, data, Thrown(ApiError(data.errno, data.errmsg)))
    /\ UNCHANGED <<client, ctor>>

----------------------------------------------------------------------------
(* upload(filePath, fileBody) *)

\* a Buffer of k bytes
Buf(k) == [t |-> "buffer", n |-> k, s |-> <<>>]

\* Buffer.byteLength throws a TypeError unless it is given a string or a buffer
ByteLengthThrows(body) == body.t \notin {"buffer", "string"}

ByteLength(body) == IF body.t = "buffer" THEN body.n ELSE Len(body.s)

UploadPaths == {Str(<<"/", "a", "/", "f">>), Str(<<"/", "f">>), Num(5)}

UploadBodies == {Buf(3), Undefined}

\* let targetPath = path.dirname(filePath); if (!targetPath.endsWith('/')) targetPath += '/'
TargetPath(filePath) ==
    LET d == Dirname(filePath)
    IN  IF EndsWithSlash(d) THEN d ELSE d \o <<"/">>

PrecreateResponses ==
    {[errno |-> e.errno, errmsg |-> e.errmsg, uploadid |-> Str(<<"u1">>)] :
        e \in Envelopes}

TransferResponses ==
    {[md5 |-> m] : m \in {Undefined, Str(<<>>), Str(<<"m5">>)}}

CreateResponses ==
    {[errno |-> e.errno, errmsg |-> e.errmsg, rec |-> r] :
        e \in Envelopes, r \in {RecFile, RecNoPath}}

TransferHost == Str(<<"https://c-jp.terabox.com">>)

\* the synchronous prefix of upload and its precreate fetch; local_mtime,
\* read from the clock, is the one body parameter the request record omits
UploadStart(c) ==
    /\ CanStart(c)
    /\ \E filePath \in UploadPaths, fileBody \in UploadBodies :
          IF ByteLengthThrows(fileBody)
          THEN Reject(c, "upload", <<filePath, fileBody>>,
                      NativeTypeError("Buffer.byteLength"))
          ELSE IF TypeOf(filePath) # "string"
          THEN Reject(c, "upload", <<filePath, fileBody>>,
                      NativeTypeError("path.dirname"))
          ELSE LET size == ByteLength(fileBody)
                   targetPath == TargetPath(filePath.s)
               IN  Issue(c, "upload", <<filePath, fileBody>>, "await_precreate",
                         Request("precreate", Cred.host,
                                 [jsToken |-> Cred.jsToken, path |-> filePath.s,
                                  target_path |-> targetPath,
                                  block_list |-> <<Cred.blockId.s>>,
                                  size |-> NatToStr(size)]),
                         [size |-> size, targetPath |-> targetPath,
                          uploadid |-> <<>>])
    /\ UNCHANGED <<client, ctor>>

PrecreateRecv(c) ==
    /\ calls[c].pc = "await_precreate"
    /\ \E data \in PrecreateResponses :
          IF ~EnvelopeOk(data)
          THEN Finish(c, data, Thrown(ApiError(data.errno, data.errmsg)))
          ELSE LET filePath == calls[c].arg[1].s
               IN  Continue(c, data, "await_transfer",
                            Request("transfer", TransferHost,
                                    [path |-> filePath,
                                     uploadid |-> ToStr(data.uploadid),
                                     filename |-> Basename(filePath),
                                     bytes |-> calls[c].loc.size]),
                            [calls[c].loc EXCEPT !.uploadid = ToStr(data.uploadid)])
    /\ UNCHANGED <<client, ctor>>

\* a slip of the checksum test: data_superfile.md5 === undefined
TransferFailedUndefinedOnly(data) == data.md5.t = "undefined"

\* !data_superfile.md5
TransferFailed(data) == ~Truthy(data.md5)

TransferRecv(c) ==
    /\ calls[c].pc = "await_transfer"
    /\ \E data \in TransferResponses :
          IF TransferFailed(data)
          THEN Finish(c, data, Thrown(ProtocolError("Unable to upload file")))
          ELSE Continue(c, data, "await_create",
                        Request("create", Cred.host,
                                [jsToken |-> Cred.jsToken,
                                 path |-> calls[c].arg[1].s,
                                 size |-> NatToStr(calls[c].loc.size),
                                 uploadid |-> calls[c].loc.uploadid,
                                 target_path |-> calls[c].loc.targetPath,
                                 block_list |-> <<ToStr(data.md5)>>]),
                        calls[c].loc)
    /\ UNCHANGED <<client, ctor>>

CreateRecv(c) ==
    /\ calls[c].pc = "await_create"
    /\ \E data \in CreateResponses :
          IF EnvelopeOk(data)
          THEN IF DirentThrows(data.rec)
               THEN Finish(c, data, Thrown(NativeTypeError("path.dirname")))
               ELSE Finish(c, data, Returned(NewDirent(data.rec)))
          ELSE Finish(c, data, Thrown(ApiError(data.errno, data.errmsg)))
    /\ UNCHANGED <<client, ctor>>

----------------------------------------------------------------------------
(* #sign() and #fetchHome() *)

\* the alphabet s of the encoder
Alphabet ==
    <<"A", "B", "C", "D", "E", "F", "G", "H", "I", "J", "K", "L", "M",
      "N", "O", "P", "Q", "R", "S", "T", "U", "V", "W", "X", "Y", "Z",
      "a", "b", "c", "d", "e", "f", "g", "h", "i", "j", "k", "l", "m",
      "n", "o", "p", "q", "r", "s", "t", "u", "v", "w", "x", "y", "z",
      "0", "1", "2", "3", "4", "5", "6", "7", "8", "9", "+", "/">>

\* s.charAt(k)
CharAt(k) == IF k >= 0 /\ k < Len(Alphabet) THEN <<Alphabet[k + 1]>> ELSE <<>>

\* the characters the signing strings are made of, and e.charCodeAt on them
CharCodes ==
    [ch \in {"f", "o", "b", "U+0166", "U+0000", "U+0080", "U+00FF", "U+0100"} |->
        CASE ch = "f" -> 102 [] ch = "o" -> 111 [] ch = "b" -> 98
          [] ch = "U+0166" -> 358 [] ch = "U+0000" -> 0 [] ch = "U+0080" -> 128
          [] ch = "U+00FF" -> 255 [] OTHER -> 256]

CharCodeAt(e, i) == CharCodes[e[i + 1]]

RECURSIVE EncodeFrom(_, _)
\* the while loop of the encoder, from 0-based position i
EncodeFrom(e, i) ==
    IF i >= Len(e) THEN <<>>
    ELSE LET a == CharCodeAt(e, i) % 256
         IN  IF i + 1 = Len(e)
             THEN CharAt(a \div 4) \o CharAt((a % 4) * 16) \o <<"=", "=">>
             ELSE LET r == CharCodeAt(e, i + 1)
                  IN  IF i + 2 = Len(e)
                      THEN CharAt(a \div 4)
                           \o CharAt((a % 4) * 16 + ((r \div 16) % 16))
                           \o CharAt((r % 16) * 4)
                           \o <<"=">>
                      ELSE LET o == CharCodeAt(e, i + 2)
                           IN  CharAt(a \div 4)
                               \o CharAt((a % 4) * 16 + ((r \div 16) % 16))
                               \o CharAt((r % 16) * 4 + ((o \div 64) % 4))
                               \o CharAt(o % 64)
                               \o EncodeFrom(e, i + 3)

\* a slip of the encoder: the padding left out
EncodeUnpadded(e) == SelectSeq(EncodeFrom(e, 0), LAMBDA ch : ch # "=")

\* the anonymous function (function (e) {...}) of #sign
Encode(e) == EncodeFrom(e, 0)

\* new Function('return ' + home.sign2)()(home.sign3, home.sign1): sign2 is
\* code the server sends; the model knows four such programs: one joins its
\* arguments, one returns the first, one returns '', any other text throws
VendorThrows(sign2) == sign2.s \notin {<<"fn:concat">>, <<"fn:first">>, <<"fn:empty">>}

VendorApply(sign2, sign3, sign1) ==
    IF sign2.s = <<"fn:concat">> THEN sign3.s \o sign1.s
    ELSE IF sign2.s = <<"fn:first">> THEN sign3.s
    ELSE <<>>

HomeData(s1, s2, s3, ts) ==
    [present |-> TRUE, sign1 |-> s1, sign2 |-> s2, sign3 |-> s3, timestamp |-> ts]

FullHome == HomeData(Str(<<"o">>), Str(<<"fn:concat">>), Str(<<"f", "o">>), Num(17))

HomeDatas ==
    {[FullHome EXCEPT !.present = FALSE],
     FullHome,
     [FullHome EXCEPT !.sign2 = Str(<<"fn:first">>)],
     [FullHome EXCEPT !.sign2 = Str(<<"fn:throws">>)],
     [FullHome EXCEPT !.sign3 = Str(<<"U+0166">>)],
     [FullHome EXCEPT !.sign1 = Undefined],
     [FullHome EXCEPT !.sign2 = Undefined],
     [FullHome EXCEPT !.sign3 = Str(<<>>)],
     [FullHome EXCEPT !.timestamp = Undefined],
     [FullHome EXCEPT !.timestamp = Num(0)]}

HomeResponses ==
    {[errno |-> e.errno, errmsg |-> e.errmsg, data |-> d] :
        e \in Envelopes, d \in HomeDatas}

\* !data.data || !data.data.sign1 || !data.data.sign2 || !data.data.sign3 || !data.data.timestamp
HomeIncomplete(d) ==
    \/ ~d.present
    \/ ~Truthy(d.sign1)
    \/ ~Truthy(d.sign2)
    \/ ~Truthy(d.sign3)
    \/ ~Truthy(d.timestamp)

\* #fetchHome() after its fetch: the outcome of the method
FetchHome(data) ==
    IF EnvelopeOk(data)
    THEN IF HomeIncomplete(data.data)
         THEN Thrown(ProtocolError("Unable to fetch home information"))
         ELSE Returned(data.data)
    ELSE Thrown(ApiError(data.errno, data.errmsg))

\* #sign() after #fetchHome() resolved or rejected
Sign(data) ==
    LET home == FetchHome(data)
    IN  IF IsThrow(home) THEN home
        ELSE IF VendorThrows(home[1].v.sign2)
        THEN Thrown(NativeTypeError("new Function"))
        ELSE Returned([sign |-> Encode(VendorApply(home[1].v.sign2,
                                                   home[1].v.sign3,
                                                   home[1].v.sign1)),
                       timestamp |-> home[1].v.timestamp])

----------------------------------------------------------------------------
(* download(fileIds) *)

\* an argument that is either one value or an array of values
Single(v)    == [isArray |-> FALSE, items |-> <<v>>]
ArrayOf(vs)  == [isArray |-> TRUE, items |-> vs]

\* if (!Array.isArray(x)) x = [x]
AsArray(a) == a.items

IdChars == {"1", "5", "x"}

\* the strings a caller may pass as an id
IdStrings == {Str(cs) : cs \in SeqsUpTo(IdChars, MaxIdLen)}

IdDirents == {DirentArg(5, <<"/", "a", "/", "f">>), DirentArg(15, <<"/", "d">>)}

\* the values an array of ids is made of
IdElems ==
    {Num(5), Str(<<"5">>), Str(<<"x">>), PlainObj, Undefined}
    \cup {DirentArg(5, <<"/", "a", "/", "f">>)}

DownloadInputs ==
    {Single(v) : v \in IdStrings \cup IdDirents
                       \cup {Num(5), Num(15), PlainObj, Undefined, Null, True}}
    \cup {ArrayOf(vs) : vs \in SeqsUpTo(IdElems, MaxIds)}

\* the test of the map callback of download: neither branch applies
IdRejected(fileId) ==
    /\ fileId.t # "dirent"
    /\ TypeOf(fileId) \notin {"number", "string"}

\* a slip of the map callback: the value passed on without Number()
NormalizeIdNoNumber(fileId) == IF fileId.t = "dirent" THEN Num(fileId.n) ELSE fileId

\* the map callback of download on an accepted value
NormalizeId(fileId) ==
    IF fileId.t = "dirent" THEN Num(fileId.n) ELSE ToNumber(fileId)

\* JSON.stringify of one array element: NaN is written as null
JsonOf(v) == IF v.t = "nan" THEN Null ELSE v

LinkRec(id, link) == [fs_id |-> Num(id), dlink |-> Str(<<link>>)]

LinkLists ==
    {<<>>, <<LinkRec(5, "https://d/5")>>,
     <<LinkRec(15, "https://d/15"), LinkRec(5, "https://d/5")>>}

LinkResponses ==
    {[errno |-> e.errno, errmsg |-> e.errmsg, hasDlink |-> TRUE, dlink |-> l] :
        e \in Envelopes, l \in LinkLists}
    \cup {[errno |-> Num(0), errmsg |-> Undefined, hasDlink |-> FALSE, dlink |-> <<>>]}

DownloadStart(c) ==
    /\ CanStart(c)
    /\ \E a \in DownloadInputs :
          LET fileIds == AsArray(a)
          IN  IF \E i \in 1..Len(fileIds) : IdRejected(fileIds[i])
              THEN LET bad == CHOOSE i \in 1..Len(fileIds) :
                                 /\ IdRejected(fileIds[i])
                                 /\ \A j \in 1..(i - 1) : ~IdRejected(fileIds[j])
                   IN  Reject(c, "download", <<a>>, ArgError("fileIds", fileIds[bad]))
              ELSE Issue(c, "download", <<a>>, "await_home",
                         Request("home", Cred.host, [jsToken |-> Cred.jsToken]),
                         [fileIds |-> [i \in 1..Len(fileIds) |-> NormalizeId(fileIds[i])]])
    /\ UNCHANGED <<client, ctor>>

\* download after #sign's fetch answered with one of the given responses
HomeRecvFrom(c, responses) ==
    /\ calls[c].pc = "await_home"
    /\ \E data \in responses :
          LET sign == Sign(data)
          IN  IF IsThrow(sign)
              THEN Finish(c, data, sign)
              ELSE Continue(c, data, "await_link",
                            Request("download", Cred.host,
                                    [jsToken |-> Cred.jsToken,
                                     fidlist |-> [i \in 1..Len(calls[c].loc.fileIds) |->
                                                     JsonOf(calls[c].loc.fileIds[i])],
                                     sign |-> sign[1].v.sign,
                                     timestamp |-> ToStr(sign[1].v.timestamp)]),
                            calls[c].loc)
    /\ UNCHANGED <<client, ctor>>

HomeRecv(c) == HomeRecvFrom(c, HomeResponses)

\* data.dlink.map(i => ({id: i.fs_id, link: i.dlink}))
MapLinks(dlink) == [i \in 1..Len(dlink) |-> [id |-> dlink[i].fs_id, link |-> dlink[i].dlink]]

\* a slip of the link test: the empty list let through
LinksMissingOnly(data) == ~data.hasDlink

\* !data.dlink || data.dlink.length < 1
LinksMissing(data) == ~data.hasDlink \/ Len(data.dlink) < 1

LinkRecv(c) ==
    /\ calls[c].pc = "await_link"
    /\ \E data \in LinkResponses :
          IF EnvelopeOk(data)
          THEN IF LinksMissing(data)
               THEN Finish(c, data, Thrown(ProtocolError("Unable to fetch download link")))
               ELSE Finish(c, data, Returned(MapLinks(data.dlink)))
          ELSE Finish(c, data, Thrown(ApiError(data.errno, data.errmsg)))
    /\ UNCHANGED <<client, ctor>>

----------------------------------------------------------------------------
(* move(files) *)

PathChars == {"/", "a"}

\* the destination paths of the first entry of a mapping
DestPaths == {Str(cs) : cs \in SeqsUpTo(PathChars, MaxPathLen)} \cup {Num(5)}

\* the destination paths of the further entries
MoreDests == {Str(<<"/", "b">>), Str(<<"/", "a", "/", "b">>), Num(5)}

\* the source paths: the i-th key of a mapping is SrcPaths[i]
SrcPaths == <<<<"/", "s">>, <<"/", "t">>, <<"/", "u">>, <<"/", "v">>>>

\* an object of k own properties, in insertion order
Mappings ==
    UNION {{[i \in 1..k |-> [key |-> SrcPaths[i], val |-> f[i]]] :
              f \in {g \in [1..k -> DestPaths \cup MoreDests] :
                        \A i \in 2..k : g[i] \in MoreDests}} :
           k \in 0..MaxMove}

\* files: the value itself (for typeof) and its own enumerable properties
MoveArg(self, entries) == [self |-> self, entries |-> entries]

MoveInputs ==
    {MoveArg(v, <<>>) : v \in {Undefined, Null, Str(<<"/", "a">>), Num(1)}}
    \cup {MoveArg(PlainObj, m) : m \in Mappings}

\* a slip of the entry: the root parent sent as it is
MoveEntryNoRootCase(sourcePath, targetPath) ==
    [path    |-> sourcePath,
     dest    |-> Dirname(targetPath),
     newname |-> Basename(targetPath)]

\* ([sourcePath, targetPath]) => ({path, dest, newname})
MoveEntry(sourcePath, targetPath) ==
    [path    |-> sourcePath,
     dest    |-> IF Dirname(targetPath) = <<"/">> THEN <<>> ELSE Dirname(targetPath),
     newname |-> Basename(targetPath)]

MoveStart(c) ==
    /\ CanStart(c)
    /\ \E files \in MoveInputs :
          IF TypeOf(files.self) # "object"
          THEN Reject(c, "move", <<files>>, ArgError("files", files.self))
          ELSE IF files.self.t = "null"
          THEN Reject(c, "move", <<files>>, NativeTypeError("Object.entries"))
          ELSE IF \E i \in 1..Len(files.entries) : TypeOf(files.entries[i].val) # "string"
          THEN Reject(c, "move", <<files>>, NativeTypeError("path.dirname"))
          ELSE Issue(c, "move", <<files>>, "await_move",
                     Request("filemanager:move", Cred.host,
                             [jsToken |-> Cred.jsToken,
                              filelist |-> [i \in 1..Len(files.entries) |->
                                              MoveEntry(files.entries[i].key,
                                                        files.entries[i].val.s)]]),
                     <<>>)
    /\ UNCHANGED <<client, ctor>>

MoveRecv(c) ==
    /\ calls[c].pc = "await_move"
    /\ \E data \in Envelopes :
          IF EnvelopeOk(data)
          THEN Finish(c, data, Returned(True))
          ELSE Finish(c, data, Thrown(ApiError(data.errno, data.errmsg)))
    /\ UNCHANGED <<client, ctor>>

----------------------------------------------------------------------------
(* delete(files) *)

DeleteElems ==
    {Str(<<"/", "a">>), DirentArg(5, <<"/", "a", "/", "f">>), Num(5), Undefined}

DeleteInputs ==
    {Single(v) : v \in DeleteElems \cup {Null, PlainObj}}
    \cup {ArrayOf(vs) : vs \in SeqsUpTo(DeleteElems, MaxIds)}

\* the test of the map callback of delete: neither branch applies
FileRejected(filePath) == filePath.t # "dirent" /\ TypeOf(filePath) # "string"

\* the map callback of delete on an accepted value: both branches give the path
NormalizeFile(filePath) == filePath.s

DeleteStart(c) ==
    /\ CanStart(c)
    /\ \E a \in DeleteInputs :
          LET files == AsArray(a)
          IN  IF \E i \in 1..Len(files) : FileRejected(files[i])
              THEN LET bad == CHOOSE i \in 1..Len(files) :
                                 /\ FileRejected(files[i])
                                 /\ \A j \in 1..(i - 1) : ~FileRejected(files[j])
                   IN  Reject(c, "delete", <<a>>, ArgError("files", files[bad]))
              ELSE Issue(c, "delete", <<a>>, "await_delete",
                         Request("filemanager:delete", Cred.host,
                                 [jsToken |-> Cred.jsToken,
                                  filelist |-> [i \in 1..Len(files) |->
                                                  NormalizeFile(files[i])]]),
                         <<>>)
    /\ UNCHANGED <<client, ctor>>

DeleteRecv(c) ==
    /\ calls[c].pc = "await_delete"
    /\ \E data \in Envelopes :
          IF EnvelopeOk(data)
          THEN Finish(c, data, Returned(True))
          ELSE Finish(c, data, Thrown(ApiError(data.errno, data.errmsg)))
    /\ UNCHANGED <<client, ctor>>

----------------------------------------------------------------------------
(* stream(filePath, type = 'M3U8_FLV_264_480') *)

\* a response body as text: raw names the text, brace is data.startsWith('{'),
\* parses tells whether JSON.parse accepts it and json is what it then yields
Text(raw, brace, parses, errno, errmsg) ==
    [raw |-> raw, brace |-> brace, parses |-> parses,
     json |-> [errno |-> errno, errmsg |-> errmsg]]

StreamTexts ==
    {Text("#EXTM3U", FALSE, FALSE, Undefined, Undefined),
     Text("", FALSE, FALSE, Undefined, Undefined),
     Text("{errno:0}", TRUE, TRUE, Num(0), Undefined),
     Text("{errno:2,errmsg:denied}", TRUE, TRUE, Num(2), Str(<<"denied">>)),
     Text("{errno:2}", TRUE, TRUE, Num(2), Undefined),
     Text("{}", TRUE, TRUE, Undefined, Undefined),
     Text("{oops", TRUE, FALSE, Undefined, Undefined)}

StreamPaths == {Str(<<"/", "v">>), DirentArg(5, <<"/", "v">>), Num(5), Undefined}

StreamTypes == {Undefined, Str(<<"M3U8_FLV_264_360">>)}

StreamStart(c) ==
    /\ CanStart(c)
    /\ \E filePath \in StreamPaths, ty \in StreamTypes :
          IF TypeOf(filePath) # "string"
          THEN Reject(c, "stream", <<filePath, ty>>, ArgError("filePath", filePath))
          ELSE LET type == DefaultTo(ty, Str(<<"M3U8_FLV_264_480">>))
               IN  Issue(c, "stream", <<filePath, ty>>, "await_stream",
                         Request("streaming", Cred.host,
                                 [path |-> filePath.s, type |-> ToStr(type)]),
                         <<>>)
    /\ UNCHANGED <<client, ctor>>

\* the body of the try block: JSON.parse may throw, a non-zero errno throws,
\* otherwise the text is returned
StreamTry(data) ==
    IF ~data.parses THEN Thrown(NativeTypeError("JSON.parse"))
    ELSE IF data.json.errno # Num(0)
    THEN Thrown(ApiError(data.json.errno, data.json.errmsg))
    ELSE Returned(data.raw)

\* try {...} catch { return data }: whatever the try block threw is dropped
StreamCatch(data, tried) == IF IsThrow(tried) THEN Returned(data.raw) ELSE tried

\* the statements of stream after its fetch
StreamOutcome(data) ==
    IF data.brace THEN StreamCatch(data, StreamTry(data)) ELSE Returned(data.raw)

StreamRecv(c) ==
    /\ calls[c].pc = "await_stream"
    /\ \E data \in StreamTexts : Finish(c, data, StreamOutcome(data))
    /\ UNCHANGED <<client, ctor>>

----------------------------------------------------------------------------
(* The specification *)

Init ==
    /\ client = <<>>
    /\ ctor = [arg |-> <<>>, out |-> Pending]
    /\ calls = [c \in CallIds |-> IdleCall]

Step(c) ==
    \/ QuotaStart(c) \/ QuotaRecv(c)
    \/ ListStart(c) \/ ListRecv(c)
    \/ UploadStart(c) \/ PrecreateRecv(c) \/ TransferRecv(c) \/ CreateRecv(c)
    \/ DownloadStart(c) \/ HomeRecv(c) \/ LinkRecv(c)
    \/ MoveStart(c) \/ MoveRecv(c)
    \/ DeleteStart(c) \/ DeleteRecv(c)
    \/ StreamStart(c) \/ StreamRecv(c)
    \/ TransportFail(c)
    \/ Forget(c)

Next == Construct \/ \E c \in SeqCalls : Step(c)

Spec == Init /\ [][Next]_vars

----------------------------------------------------------------------------
(* The encoder of #sign on every short string: one download whose home-info
   answer carries the string as sign3 *)

SignChars == DOMAIN CharCodes

SignStrings == {Str(cs) : cs \in SeqsUpTo(SignChars, MaxSignLen) \ {<<>>}}

SignHomeResponses ==
    {[errno |-> Num(0), errmsg |-> Undefined,
      data |-> [FullHome EXCEPT !.sign2 = Str(<<"fn:first">>), !.sign3 = s3]] :
        s3 \in SignStrings}
    \cup {[errno |-> Num(0), errmsg |-> Undefined,
           data |-> [FullHome EXCEPT !.sign2 = Str(<<prog>>)]] :
             prog \in {"fn:concat", "fn:empty"}}

NextSign ==
    \/ Construct
    \/ \E c \in SeqCalls :
          \/ DownloadStart(c) /\ calls'[c].arg = <<Single(Num(5))>>
          \/ HomeRecvFrom(c, SignHomeResponses)

SpecSign == Init /\ [][NextSign]_vars

----------------------------------------------------------------------------
(* Two invocations in flight on one client, in every interleaving; the
   arguments and the answers are drawn from a few of those above *)

ConcArgs(op) ==
    CASE op = "quota"    -> {<<>>}
      [] op = "list"     -> {<<Str(<<"/">>)>>}
      [] op = "upload"   -> {<<Str(<<"/", "a", "/", "f">>), Buf(3)>>,
                             <<Str(<<"/", "f">>), Buf(3)>>}
      [] op = "download" -> {<<Single(Num(5))>>, <<Single(Str(<<"1", "5">>))>>}
      [] op = "move"     -> {<<MoveArg(PlainObj, <<[key |-> SrcPaths[1], val |-> v]>>)>> :
                                v \in {Str(<<"/", "a">>), Str(<<"/", "a", "/", "a">>)}}
      [] op = "delete"   -> {<<Single(Str(<<"/", "a">>))>>}
      [] op = "stream"   -> {<<Str(<<"/", "v">>), Undefined>>, <<Num(5), Undefined>>}
      [] OTHER           -> {}

ConcEnvelope(data) ==
    \/ data.errno = Num(0) /\ data.errmsg = Undefined
    \/ data.errno = Num(2) /\ data.errmsg = Str(<<"denied">>)

ConcResponse(op, i, data) ==
    CASE op = "list" ->
            /\ ConcEnvelope(data)
            /\ data.hasList
            /\ data.list \in {<<RecFile>>, <<RecDir, RecFile>>}
      [] op = "upload" /\ i = 2 -> data.md5 \in {Undefined, Str(<<"m5">>)}
      [] op = "upload" /\ i = 3 -> ConcEnvelope(data) /\ data.rec = RecFile
      [] op = "download" /\ i = 1 ->
            /\ ConcEnvelope(data)
            /\ data.data \in {FullHome, [FullHome EXCEPT !.sign2 = Str(<<"fn:first">>)]}
      [] op = "download" /\ i = 2 ->
            /\ ConcEnvelope(data)
            /\ data.hasDlink
            /\ Len(data.dlink) <= 1
      [] op = "stream" -> data.raw \in {"#EXTM3U", "{errno:2,errmsg:denied}"}
      [] OTHER -> ConcEnvelope(data)

\* invocation c is idle or one of the few
ConcCall(c) ==
    \/ calls[c].op = "none"
    \/ /\ calls[c].arg \in ConcArgs(calls[c].op)
       /\ \A i \in 1..Len(calls[c].resps) :
             ConcResponse(calls[c].op, i, calls[c].resps[i])

NextConc ==
    \/ Construct
    \/ \E c \in CallIds :
          \/ QuotaStart(c) /\ ConcCall(c)'
          \/ QuotaRecv(c) /\ ConcCall(c)'
          \/ ListStart(c) /\ ConcCall(c)'
          \/ ListRecv(c) /\ ConcCall(c)'
          \/ UploadStart(c) /\ ConcCall(c)'
          \/ PrecreateRecv(c) /\ ConcCall(c)'
          \/ TransferRecv(c) /\ ConcCall(c)'
          \/ CreateRecv(c) /\ ConcCall(c)'
          \/ DownloadStart(c) /\ ConcCall(c)'
          \/ HomeRecv(c) /\ ConcCall(c)'
          \/ LinkRecv(c) /\ ConcCall(c)'
          \/ MoveStart(c) /\ ConcCall(c)'
          \/ MoveRecv(c) /\ ConcCall(c)'
          \/ DeleteStart(c) /\ ConcCall(c)'
          \/ DeleteRecv(c) /\ ConcCall(c)'
          \/ StreamStart(c) /\ ConcCall(c)'
          \/ StreamRecv(c) /\ ConcCall(c)'
          \/ TransportFail(c)
          \/ Forget(c)

SpecConc == Init /\ [][NextConc]_vars

----------------------------------------------------------------------------
(* Properties *)

\* the endpoints of the requests an invocation has issued, in order
Endpoints(cl) == [i \in 1..Len(cl.reqs) |-> cl.reqs[i].ep]

IsPrefix(a, b) == Len(a) <= Len(b) /\ a = SubSeq(b, 1, Len(a))

\* the message of an API error carries exactly this code and this message
CarriesEnvelope(out, data) ==
    /\ IsThrow(out)
    /\ out[1].v.cls = "Error"
    /\ out[1].v.tag = "ERR_API"
    /\ out[1].v.code = ToStr(data.errno)
    /\ out[1].v.msg = (IF data.errmsg.t = "string" THEN data.errmsg.s ELSE <<>>)

UploadOrder(cl) ==
    /\ IsPrefix(Endpoints(cl), <<"precreate", "transfer", "create">>)
    \* transfer only after precreate answered code zero
    /\ Len(cl.reqs) >= 2 =>
          /\ Len(cl.resps) >= 1
          /\ cl.resps[1].errno = Num(0)
    \* finalize only after transfer answered with a checksum
    /\ Len(cl.reqs) >= 3 =>
          /\ Len(cl.resps) >= 2
          /\ cl.resps[2].md5.t = "string"
          /\ Len(cl.resps[2].md5.s) > 0
    \* a Directory Entry only after finalize answered code zero
    /\ IsReturn(cl.out) =>
          /\ Len(cl.reqs) = 3
          /\ Len(cl.resps) = 3
          /\ cl.resps[3].errno = Num(0)
          /\ cl.out[1].v.path = cl.resps[3].rec.path
    \* every other answer ends the invocation with a failure, the later
    \* steps not issued
    /\ (Len(cl.resps) >= 1 /\ cl.resps[1].errno # Num(0)) =>
          cl.pc = "done" /\ IsThrow(cl.out) /\ Len(cl.reqs) = 1
    /\ (Len(cl.resps) >= 2 /\ ~(cl.resps[2].md5.t = "string" /\ Len(cl.resps[2].md5.s) > 0)) =>
          cl.pc = "done" /\ IsThrow(cl.out) /\ Len(cl.reqs) = 2
    /\ (Len(cl.resps) >= 3 /\ cl.resps[3].errno # Num(0)) =>
          cl.pc = "done" /\ IsThrow(cl.out)
    /\ cl.pc = "done" => (cl.out # Pending /\ Len(cl.reqs) <= Len(cl.resps) + 1)

\* C1: upload issues precreate, transfer, finalize in this order, each at
\* most once; transfer only after precreate answered code zero, finalize
\* only after transfer answered with a checksum, a Directory Entry only
\* after finalize answered code zero; any other answer fails the upload
\* with no later step issued.
C1_UploadOrder ==
    \A c \in CallIds : calls[c].op = "upload" => UploadOrder(calls[c])

\* an upload that returned its Directory Entry after all three steps
C1_Witness ==
    \E c \in CallIds :
        /\ calls[c].op = "upload"
        /\ IsReturn(calls[c].out)
        /\ Endpoints(calls[c]) = <<"precreate", "transfer", "create">>

\* what the claim says of a stream response text
StreamAsClaimed(cl) ==
    LET data == cl.resps[1]
    IN  IF data.brace /\ data.parses /\ data.json.errno # Num(0)
        THEN CarriesEnvelope(cl.out, data.json)
        ELSE cl.out = Returned(data.raw)

\* C2: stream fails with an API error carrying the code and message when
\* the text parses as an envelope with a non-zero code, and returns the raw
\* text in every other case.
C2_StreamFailsOnEnvelope ==
    \A c \in CallIds :
        (calls[c].op = "stream" /\ Len(calls[c].resps) = 1) => StreamAsClaimed(calls[c])

\* the responses of an invocation that are JSON envelopes (the transfer
\* answer of upload carries no errno)
EnvelopeAt(cl, i) == "errno" \in DOMAIN cl.resps[i]

JsonOps == {"quota", "list", "upload", "download", "move", "delete"}

IllTyped(cl) ==
    CASE cl.op = "list"     -> cl.arg[1].t \notin {"string", "undefined"}
      [] cl.op = "upload"   -> cl.arg[1].t # "string"
      [] cl.op = "download" ->
            \E i \in 1..Len(cl.arg[1].items) :
                cl.arg[1].items[i].t \notin {"number", "nan", "string", "dirent"}
      [] cl.op = "move"     -> cl.arg[1].self.t # "object"
      [] cl.op = "delete"   ->
            \E i \in 1..Len(cl.arg[1].items) :
                cl.arg[1].items[i].t \notin {"string", "dirent"}
      [] cl.op = "stream"   -> cl.arg[1].t # "string"
      [] OTHER              -> FALSE

\* an error about the argument: the library's ERR_INVALID_ARG_TYPE or a
\* TypeError of the runtime
IsArgumentError(out) ==
    /\ IsThrow(out)
    /\ out[1].v.tag = "ERR_INVALID_ARG_TYPE" \/ out[1].v.cls = "TypeError"

\* C4: list, upload, download, move, delete and stream fail with an
\* argument error, no HTTP request issued, when the argument has the wrong
\* shape or type.
C4_IllTypedArgumentRejected ==
    \A c \in CallIds :
        (calls[c].pc # "idle" /\ IllTyped(calls[c])) =>
            /\ calls[c].pc = "done"
            /\ IsArgumentError(calls[c].out)
            /\ calls[c].reqs = <<>>

\* the record is missing, or its token is missing, empty or not a string
NoUsableToken(cr) ==
    \/ cr.self.t \in {"undefined", "null"}
    \/ cr.ndus.t # "string"
    \/ cr.ndus.s = <<>>

\* C5: constructing without a credential record, or with a session token
\* that is missing, empty or not a string, fails with a configuration
\* error, no Client created and no HTTP request issued; with a non-empty
\* string token the construction succeeds.
C5_ConstructorChecksToken ==
    ctor.out # Pending =>
        LET cr == ctor.arg[1]
        IN  IF NoUsableToken(cr)
            THEN /\ IsThrow(ctor.out)
                 /\ ctor.out[1].v.tag = "ERR_INVALID_ARG_TYPE"
                 /\ client = <<>>
                 /\ \A c \in CallIds : calls[c].reqs = <<>>
            ELSE /\ IsReturn(ctor.out)
                 /\ client # <<>>
                 /\ client[1].ndus = cr.ndus

\* a construction refused for a token that is a non-zero number
C5_Witness ==
    /\ IsThrow(ctor.out)
    /\ ctor.arg[1].ndus = Num(5)
    /\ client = <<>>

HomeComplete(d) ==
    /\ d.present
    /\ d.sign1.t = "string" /\ d.sign1.s # <<>>
    /\ d.sign2.t = "string" /\ d.sign2.s # <<>>
    /\ d.sign3.t = "string" /\ d.sign3.s # <<>>
    /\ d.timestamp.t = "number" /\ d.timestamp.n # 0

DownloadOrder(cl) ==
    /\ IsPrefix(Endpoints(cl), <<"home", "download">>)
    \* well-typed ids: home-info is the first request
    /\ ~IllTyped(cl) => (Len(cl.reqs) >= 1 /\ cl.reqs[1].ep = "home")
    \* the link request only after a complete home-info with code zero
    /\ Len(cl.reqs) = 2 =>
          /\ Len(cl.resps) >= 1
          /\ cl.resps[1].errno = Num(0)
          /\ HomeComplete(cl.resps[1].data)
    /\ IsReturn(cl.out) =>
          /\ Len(cl.resps) = 2
          /\ cl.resps[2].errno = Num(0)
          /\ cl.resps[2].hasDlink
          /\ Len(cl.resps[2].dlink) >= 1
          /\ Len(cl.out[1].v) = Len(cl.resps[2].dlink)
          /\ \A i \in 1..Len(cl.resps[2].dlink) :
                /\ cl.out[1].v[i].id = cl.resps[2].dlink[i].fs_id
                /\ cl.out[1].v[i].link = cl.resps[2].dlink[i].dlink
    /\ (Len(cl.resps) = 2 /\ cl.resps[2].errno = Num(0)) =>
          IF cl.resps[2].hasDlink /\ cl.resps[2].dlink # <<>>
          THEN IsReturn(cl.out)
          ELSE /\ IsThrow(cl.out)
               /\ cl.out[1].v.tag = "ERR_API"
               /\ cl.out[1].v.code = <<>>

\* C6: download with well-typed ids issues home-info first and once, the
\* link request at most once and only after home-info answered code zero
\* with sign1, sign2, sign3 and timestamp; it returns the {id, link} pairs
\* in upstream order only for code zero and a non-empty link list, and
\* fails with a protocol error for code zero and a missing or empty list.
C6_DownloadOrder ==
    \A c \in CallIds : calls[c].op = "download" => DownloadOrder(calls[c])

\* a download that returned two links, in the order upstream gave them
C6_Witness ==
    \E c \in CallIds :
        /\ calls[c].op = "download"
        /\ IsReturn(calls[c].out)
        /\ Len(calls[c].out[1].v) = 2
        /\ calls[c].out[1].v[1].id = Num(15)
        /\ calls[c].out[1].v[2].id = Num(5)

\* v is one of the three forms of the id n: a Directory Entry with id n,
\* the number n, the decimal string of n
IdForm(v, n) ==
    \/ v = Num(n)
    \/ v = Str(NatToStr(n))
    \/ v.t = "dirent" /\ v.n = n

\* the ids a string of at most MaxIdLen digits can name
IdRange == 0..(10 ^ MaxIdLen - 1)

\* C7: download normalizes its argument before requesting links: a single
\* value is a one-element list, and the Directory Entry with id n, the
\* number n and the numeric string of n all put the integer n into the id
\* list sent upstream.
C7_DownloadNormalizesIds ==
    \A c \in CallIds :
        (calls[c].op = "download" /\ Len(calls[c].reqs) = 2) =>
            LET a       == calls[c].arg[1]
                fidlist == calls[c].reqs[2].body.fidlist
            IN  /\ Len(fidlist) = Len(a.items)
                /\ ~a.isArray => Len(fidlist) = 1
                /\ \A i \in 1..Len(a.items) : \A n \in IdRange :
                      IdForm(a.items[i], n) => fidlist[i] = Num(n)

\* the string "15" passed alone reached upstream as the list [15]
C7_Witness ==
    \E c \in CallIds :
        /\ calls[c].op = "download"
        /\ calls[c].arg[1] = Single(Str(<<"1", "5">>))
        /\ Len(calls[c].reqs) = 2
        /\ calls[c].reqs[2].body.fidlist = <<Num(15)>>

\* an absolute path in normal form: one slash before each non-empty name
NormalPath(p) ==
    /\ Len(p) >= 2
    /\ p[1] = "/"
    /\ p[Len(p)] # "/"
    /\ \A i \in 1..(Len(p) - 1) : ~(p[i] = "/" /\ p[i + 1] = "/")

LastSlash(p) == CHOOSE i \in 1..Len(p) : p[i] = "/" /\ \A j \in (i + 1)..Len(p) : p[j] # "/"

\* the parent directory and the name of a path in normal form
ParentOf(p) == IF LastSlash(p) = 1 THEN <<"/">> ELSE SubSeq(p, 1, LastSlash(p) - 1)
NameOf(p)   == SubSeq(p, LastSlash(p) + 1, Len(p))

\* a mapping move accepts: an object whose values are all strings
MoveAccepts(files) ==
    /\ files.self.t = "object"
    /\ \A i \in 1..Len(files.entries) : files.entries[i].val.t = "string"

\* C8: move sends one request with one entry per mapping key; for source A
\* mapped to destination B the entry has path = A, newname = the basename of
\* B and dest = the parent directory of B, except that dest is the empty
\* string, not "/", when the parent of B is the root.
C8_MoveEntries ==
    \A c \in CallIds :
        (calls[c].op = "move" /\ MoveAccepts(calls[c].arg[1])) =>
            LET files == calls[c].arg[1]
                reqs  == calls[c].reqs
            IN  /\ Len(reqs) = 1
                /\ Len(reqs[1].body.filelist) = Len(files.entries)
                /\ \A i \in 1..Len(files.entries) :
                      LET A == files.entries[i].key
                          B == files.entries[i].val.s
                          e == reqs[1].body.filelist[i]
                      IN  /\ e.path = A
                          /\ e.newname = Basename(B)
                          /\ e.dest # <<"/">>
                          /\ e.dest = (IF Dirname(B) = <<"/">> THEN <<>> ELSE Dirname(B))
                          /\ NormalPath(B) =>
                                /\ e.newname = NameOf(B)
                                /\ e.dest = (IF ParentOf(B) = <<"/">> THEN <<>>
                                             ELSE ParentOf(B))
                                /\ e.dest \o <<"/">> \o e.newname = B

\* a move of two entries, the first into the root: its dest is empty
C8_Witness ==
    \E c \in CallIds :
        /\ calls[c].op = "move"
        /\ Len(calls[c].reqs) = 1
        /\ Len(calls[c].reqs[1].body.filelist) = 2
        /\ calls[c].arg[1].entries[1].val = Str(<<"/", "a">>)
        /\ calls[c].reqs[1].body.filelist[1].dest = <<>>
        /\ calls[c].reqs[1].body.filelist[2].dest = <<"/", "a">>

\* C9: for a listing response with code zero, list returns one Directory
\* Entry per element of the upstream array, in the same order, the i-th
\* entry built from the i-th record.
C9_ListKeepsOrder ==
    \A c \in CallIds :
        (calls[c].op = "list" /\ Len(calls[c].resps) = 1) =>
            LET data == calls[c].resps[1]
                out  == calls[c].out
            IN  /\ IsReturn(out) =>
                      /\ data.errno = Num(0)
                      /\ Len(out[1].v) = Len(data.list)
                      /\ \A i \in 1..Len(data.list) :
                            /\ out[1].v[i].id = data.list[i].fs_id
                            /\ out[1].v[i].path = data.list[i].path
                            /\ out[1].v[i].name = data.list[i].server_filename
                /\ (/\ data.errno = Num(0)
                    /\ data.hasList
                    /\ \A i \in 1..Len(data.list) : data.list[i].path.t = "string")
                      => IsReturn(out)

\* a listing of a directory after a file came back as two entries, the
\* file first
C9_Witness ==
    \E c \in CallIds :
        /\ calls[c].op = "list"
        /\ IsReturn(calls[c].out)
        /\ calls[c].resps[1].list = <<RecFile, RecDir>>
        /\ Len(calls[c].out[1].v) = 2
        /\ calls[c].out[1].v[1].id = Num(5)
        /\ calls[c].out[1].v[2].id = Num(7)

\* the most requests one invocation of an operation may issue
MostRequests(op) ==
    CASE op = "download" -> 2
      [] op = "upload"   -> 3
      [] OTHER           -> 1

\* the i-th response of an invocation is a failure: a non-zero code, or an
\* expected field missing
FailureAt(cl, i) ==
    LET data == cl.resps[i]
    IN  CASE cl.op = "stream" -> data.brace /\ data.parses /\ data.json.errno # Num(0)
          [] cl.op = "upload" /\ i = 2 -> ~(data.md5.t = "string" /\ data.md5.s # <<>>)
          [] cl.op = "download" /\ i = 1 ->
                data.errno # Num(0) \/ ~HomeComplete(data.data)
          [] cl.op = "download" /\ i = 2 ->
                data.errno # Num(0) \/ ~data.hasDlink \/ data.dlink = <<>>
          [] OTHER -> data.errno # Num(0)

NoRetry(cl) ==
    /\ Len(cl.reqs) <= MostRequests(cl.op)
    /\ \A i \in 1..Len(cl.resps) :
          FailureAt(cl, i) =>
              /\ Len(cl.reqs) = i
              /\ cl.pc = "done"
              /\ IsThrow(cl.out)

\* C10: one invocation issues at most 1 request for quota, list, move,
\* delete and stream, at most 2 for download and at most 3 for upload, and
\* after a failing response it issues no further request and reports the
\* failure to its caller.
C10_NoRetryFailureReported ==
    \A c \in CallIds : calls[c].pc # "idle" => NoRetry(calls[c])

\* the same for every operation but stream
NoRetryExceptStream ==
    \A c \in CallIds :
        (calls[c].pc # "idle" /\ calls[c].op # "stream") => NoRetry(calls[c])

\* C13: for every constructed Client the language in the composed cookie
\* header equals the language tag of the credential bundle after defaulting,
\* so a Client built without a language override sends 'en' in the cookie
\* of every request.
C13_CookieCarriesDefaultedLanguage ==
    client # <<>> =>
        /\ client[1].cookies.lang = client[1].lang.s
        /\ ctor.arg[1].lang.t = "undefined" => client[1].cookies.lang = <<"en">>
        /\ \A c \in CallIds : \A i \in 1..Len(calls[c].reqs) :
              calls[c].reqs[i].cookie.lang = client[1].lang.s

\* the base64 alphabet of RFC 4648
StdAlphabet ==
    <<"A", "B", "C", "D", "E", "F", "G", "H", "I", "J", "K", "L", "M",
      "N", "O", "P", "Q", "R", "S", "T", "U", "V", "W", "X", "Y", "Z">>
    \o <<"a", "b", "c", "d", "e", "f", "g", "h", "i", "j", "k", "l", "m",
         "n", "o", "p", "q", "r", "s", "t", "u", "v", "w", "x", "y", "z">>
    \o Digits \o <<"+", "/">>

\* the k base-64 digits of the number v, the most significant first
Sextets(v, k) == [j \in 1..k |-> StdAlphabet[((v \div (64 ^ (k - j))) % 64) + 1]]

RECURSIVE StdBase64(_)
\* base64 of a sequence of bytes: 24 bits make four digits; a last group of
\* 8 bits is padded to 12 bits and "==", one of 16 bits to 18 bits and "="
StdBase64(bs) ==
    IF Len(bs) = 0 THEN <<>>
    ELSE IF Len(bs) = 1 THEN Sextets(bs[1] * 16, 2) \o <<"=", "=">>
    ELSE IF Len(bs) = 2 THEN Sextets((bs[1] * 256 + bs[2]) * 4, 3) \o <<"=">>
    ELSE Sextets(bs[1] * 65536 + bs[2] * 256 + bs[3], 4)
         \o StdBase64(SubSeq(bs, 4, Len(bs)))

\* the low byte of each character of a string
LowBytes(e) == [i \in 1..Len(e) |-> CharCodes[e[i]] % 256]

\* the number of '=' at the end of a string
Padding(out) ==
    Cardinality({k \in 1..Len(out) : \A j \in k..Len(out) : out[j] = "="})

EncodedAsBase64(e, out) ==
    LET n == Len(e)
    IN  /\ out = StdBase64(LowBytes(e))
        /\ Len(out) = 4 * ((n + 2) \div 3)
        /\ Padding(out) = (CASE n % 3 = 0 -> 0 [] n % 3 = 2 -> 1 [] OTHER -> 2)
        /\ \A j \in 1..(Len(out) - Padding(out)) : out[j] # "="
        /\ e = <<"f", "o", "o">> => out = <<"Z", "m", "9", "v">>
        /\ e = <<"f", "o">> => out = <<"Z", "m", "8", "=">>

\* the string the encoder of an invocation of download was run on
SignInput(cl) ==
    VendorApply(cl.resps[1].data.sign2, cl.resps[1].data.sign3, cl.resps[1].data.sign1)

\* C12: the encoder inside sign is standard base64 over the low byte of
\* each input character: four characters per three bytes, no padding for a
\* length that is a multiple of 3, one '=' for 2 bytes left over and two
\* for 1 byte left over, so 4 * ceil(n / 3) characters in all ("foo" gives
\* "Zm9v", "fo" gives "Zm8=").
C12_EncoderIsBase64 ==
    \A c \in CallIds :
        (calls[c].op = "download" /\ Len(calls[c].reqs) = 2) =>
            EncodedAsBase64(SignInput(calls[c]), calls[c].reqs[2].body.sign)

\* the two characters "fo" went upstream as the signature "Zm8="
C12_Witness ==
    \E c \in CallIds :
        /\ calls[c].op = "download"
        /\ Len(calls[c].reqs) = 2
        /\ SignInput(calls[c]) = <<"f", "o">>
        /\ calls[c].reqs[2].body.sign = <<"Z", "m", "8", "=">>

\* every request of an invocation is made of the credential bundle, the
\* invocation's own arguments and the answers to its own earlier requests
OwnRequests(cl) ==
    /\ \A i \in 1..Len(cl.reqs) :
          /\ cl.reqs[i].cookie = client[1].cookies
          /\ cl.reqs[i].ua = client[1].userAgent
    /\ (cl.op = "list" /\ Len(cl.reqs) >= 1) =>
          cl.reqs[1].body.dir = ToStr(DefaultTo(cl.arg[1], Str(<<"/">>)))
    /\ (cl.op = "upload" /\ Len(cl.reqs) >= 1) =>
          /\ cl.reqs[1].body.path = cl.arg[1].s
          /\ cl.reqs[1].body.target_path = TargetPath(cl.arg[1].s)
          /\ cl.reqs[1].body.size = NatToStr(ByteLength(cl.arg[2]))
    /\ (cl.op = "upload" /\ Len(cl.reqs) >= 2) =>
          /\ cl.reqs[2].body.path = cl.arg[1].s
          /\ cl.reqs[2].body.filename = Basename(cl.arg[1].s)
          /\ cl.reqs[2].body.bytes = ByteLength(cl.arg[2])
          /\ cl.reqs[2].body.uploadid = ToStr(cl.resps[1].uploadid)
    /\ (cl.op = "upload" /\ Len(cl.reqs) >= 3) =>
          /\ cl.reqs[3].body.path = cl.arg[1].s
          /\ cl.reqs[3].body.target_path = TargetPath(cl.arg[1].s)
          /\ cl.reqs[3].body.size = NatToStr(ByteLength(cl.arg[2]))
          /\ cl.reqs[3].body.uploadid = ToStr(cl.resps[1].uploadid)
          /\ cl.reqs[3].body.block_list = <<ToStr(cl.resps[2].md5)>>
    /\ (cl.op = "download" /\ Len(cl.reqs) >= 2) =>
          /\ cl.reqs[2].body.fidlist =
                [k \in 1..Len(cl.arg[1].items) |-> JsonOf(NormalizeId(cl.arg[1].items[k]))]
          /\ cl.reqs[2].body.sign = Encode(SignInput(cl))
          /\ cl.reqs[2].body.timestamp = ToStr(cl.resps[1].data.timestamp)
    /\ (cl.op = "move" /\ Len(cl.reqs) >= 1) =>
          cl.reqs[1].body.filelist =
              [k \in 1..Len(cl.arg[1].entries) |->
                  MoveEntry(cl.arg[1].entries[k].key, cl.arg[1].entries[k].val.s)]
    /\ (cl.op = "delete" /\ Len(cl.reqs) >= 1) =>
          cl.reqs[1].body.filelist =
              [k \in 1..Len(cl.arg[1].items) |-> NormalizeFile(cl.arg[1].items[k])]
    /\ (cl.op = "stream" /\ Len(cl.reqs) >= 1) =>
          cl.reqs[1].body.path = cl.arg[1].s

\* what an invocation returned is made of the answers to its own requests
OwnResult(cl) ==
    IsReturn(cl.out) =>
        cl.out[1].v =
            (CASE cl.op = "quota"    -> QuotaResult(cl.resps[1])
               [] cl.op = "list"     -> MapDirents(cl.resps[1].list)
               [] cl.op = "upload"   -> NewDirent(cl.resps[3].rec)
               [] cl.op = "download" -> MapLinks(cl.resps[2].dlink)
               [] cl.op = "stream"   -> cl.resps[1].raw
               [] OTHER              -> True)

\* two invocations with the same arguments and the same answers so far have
\* issued the same requests and have the same outcome
SameInputsSameRun ==
    \A c, d \in CallIds :
        (/\ calls[c].op = calls[d].op
         /\ calls[c].arg = calls[d].arg
         /\ calls[c].resps = calls[d].resps
         /\ calls[c].pc = calls[d].pc)
            => (calls[c].reqs = calls[d].reqs /\ calls[c].out = calls[d].out)

Independent ==
    /\ client # <<>> => client = <<MakeCredentials(ctor.arg[1])>>
    /\ \A c \in CallIds :
          calls[c].pc # "idle" => (OwnRequests(calls[c]) /\ OwnResult(calls[c]))
    /\ SameInputsSameRun

\* a step of one invocation leaves the credential bundle and every other
\* invocation as they were
StepIsLocal ==
    /\ client # <<>> => client' = client
    /\ \A c, d \in CallIds :
          (c # d /\ calls'[c] # calls[c]) => calls'[d] = calls[d]

\* C11: under any interleaving of operations issued concurrently on one
\* Client the credential bundle stays equal to its value at construction,
\* and the requests and the outcome of each invocation depend only on its
\* own arguments and the responses to its own requests, never on another
\* invocation in flight.
C11_InvocationsIndependent == []Independent /\ [][StepIsLocal]_vars

\* two uploads of different files in flight at once, both at their
\* finalize request
C11_Witness ==
    /\ calls["c1"].op = "upload" /\ calls["c2"].op = "upload"
    /\ calls["c1"].arg # calls["c2"].arg
    /\ calls["c1"].pc = "await_create" /\ calls["c2"].pc = "await_create"

====
